---- MODULE Spec2Model ----
(***************************************************************************)
(* Bubble Shooter (src/index.js): the staggered grid, the connectivity     *)
(* searches, the projectile simulator, the row-shift animator and the      *)
(* session controls, as one state machine.                                 *)
(*                                                                         *)
(* Representation.                                                         *)
(*  - A cell holds 0 (null) or a palette index 1..NumColors.               *)
(*  - Lengths are integers in 1/SubPx pixel; an angle is the pair         *)
(*    <<cos, sin>> in 1/AngleUnit.                                         *)
(*  - performance.now() is not stored: a timer is its remaining delay, an  *)
(*    animation start is its age (performance.now() - start); Advance      *)
(*    moves all of them by TimeStep ms.                                    *)
(*  - shooter.hudAnim, the scale animation of the two HUD bubbles, is read *)
(*    and cleared by drawShooterHUD alone and is not part of the state.    *)
(***************************************************************************)
EXTENDS Integers, Sequences, FiniteSets, TLC

\* ------------------------------------------------------------ constants
rows == 10
cols == 8
cellSize == 18
FilledRows == 4
MatchMin == 3
MatchPoints == 10
FloatPoints == 5
fireSpeed == 8
ShiftDuration == 300
UnlockDelay == 16
SubPx == 100
AngleUnit == 1000

\* ------------------------------------------------------------ bounds
\* colours of the palette in use (the palette has six)
NumColors == 2
\* user inputs (pointer events and button clicks) in one run
MaxInputs == 2
\* milliseconds that pass in one Advance step
TimeStep == 300

Colors == 1..NumColors
RowIx == 0..(rows - 1)
ColIx == 0..(cols - 1)
Cells == RowIx \X ColIx

Min(a, b) == IF a <= b THEN a ELSE b
Max(a, b) == IF a >= b THEN a ELSE b
Abs(a) == IF a < 0 THEN -a ELSE a

\* ------------------------------------------------------------ geometry
\* gridToPos: top-left corner of the cell's box
gridToPosX(row, col) == (col * cellSize + (row % 2) * (cellSize \div 2)) * SubPx
gridToPosY(row) == (row * (cellSize - 3)) * SubPx
gridToPos(row, col) == [x |-> gridToPosX(row, col), y |-> gridToPosY(row)]

\* centre of the cell's circle (pos + cellSize / 2, as every caller computes it)
CenterX(row, col) == gridToPosX(row, col) + (cellSize \div 2) * SubPx
CenterY(row) == gridToPosY(row) + (cellSize \div 2) * SubPx

Dist2(ax, ay, bx, by) == (ax - bx) * (ax - bx) + (ay - by) * (ay - by)

\* mutant of posToGrid: the scan measures to gridToPos itself, without the half
\* cell that makes it the centre
posToGrid_NoHalf(x, y) ==
  LET cand == {<<Dist2(gridToPosX(row, col), gridToPosY(row), x, y), row, col>> :
                 row \in RowIx, col \in ColIx}
      best == CHOOSE t \in cand : \A u \in cand :
                \/ t[1] < u[1]
                \/ t[1] = u[1] /\ t[2] < u[2]
                \/ t[1] = u[1] /\ t[2] = u[2] /\ t[3] <= u[3]
  IN  [row |-> best[2], col |-> best[3]]

\* posToGrid: the row-major scan keeps the first cell of strictly smaller squared
\* distance, so it returns the least (distance, row, col) in that order
posToGrid(x, y) ==
  LET cand == {<<Dist2(CenterX(row, col), CenterY(row), x, y), row, col>> :
                 row \in RowIx, col \in ColIx}
      best == CHOOSE t \in cand : \A u \in cand :
                \/ t[1] < u[1]
                \/ t[1] = u[1] /\ t[2] < u[2]
                \/ t[1] = u[1] /\ t[2] = u[2] /\ t[3] <= u[3]
  IN  [row |-> best[2], col |-> best[3]]

\* canvas size set by resize(), unit device pixel ratio, parent at least as wide
CanvasWidth == (cols * cellSize + 10) * SubPx
CanvasHeight == (rows * (cellSize - 3) + 110) * SubPx
ShooterX == CanvasWidth \div 2
ShooterY == CanvasHeight - 30 * SubPx
ShooterRadius == ((cellSize \div 2) - 1) * SubPx

\* ------------------------------------------------------------ grid
EmptyRow == [c \in ColIx |-> 0]
EmptyGrid == [r \in RowIx |-> EmptyRow]

InRange(r, c) == r >= 0 /\ r < rows /\ c >= 0 /\ c < cols

\* mutant of offsets: the diagonal column offset ignores the row's parity
offsets_NoParity(r) ==
  << <<-1, 0>>, <<1, 0>>, <<0, -1>>, <<0, 1>>, <<-1, -1>>, <<1, -1>> >>

\* the six offsets pushed by floodFill and removeFloating for a cell of row r
offsets(r) ==
  << <<-1, 0>>, <<1, 0>>, <<0, -1>>, <<0, 1>>,
     <<-1, IF r % 2 = 0 THEN -1 ELSE 1>>, <<1, IF r % 2 = 0 THEN -1 ELSE 1>> >>

\* the cells a visit of (r, c) pushes, topmost (last pushed) first
Pushed(r, c) == [i \in 1..6 |-> <<r + offsets(r)[7 - i][1], c + offsets(r)[7 - i][2]>>]

\* floodFill: the stack loop, the stack written top first; the result is the
\* visited set. An entry that is out of range or not of the colour is dropped
\* when popped whatever was visited since, so it is dropped here when pushed; one
\* evaluation pops the stack down to the topmost entry not yet visited, visits
\* it and pushes its six offsets.
Matches(g, color, q) == InRange(q[1], q[2]) /\ color # 0 /\ g[q[1]][q[2]] = color

RECURSIVE floodFillLoop(_, _, _, _)
floodFillLoop(g, color, stack, visited) ==
  LET ok == {i \in 1..Len(stack) : stack[i] \notin visited}
  IN  IF ok = {} THEN visited
      ELSE LET j == CHOOSE i \in ok : \A k \in ok : k >= i
               top == stack[j]
               nb == SelectSeq(Pushed(top[1], top[2]), LAMBDA q : Matches(g, color, q))
           IN  floodFillLoop(g, color, nb \o SubSeq(stack, j + 1, Len(stack)),
                             visited \cup {top})

floodFill(g, sr, sc, color) ==
  floodFillLoop(g, color, SelectSeq(<< <<sr, sc>> >>, LAMBDA q : Matches(g, color, q)), {})

\* removeFloating: the reachability loop from the occupied cells of row 0, the
\* stack written top first. One evaluation pops the stack down to the topmost
\* entry not yet reachable, adds it and pushes its occupied in-range neighbours.
\* mutant of Occupied: the neighbour is pushed whether or not it holds a bubble
Occupied_InRangeOnly(g, q) == InRange(q[1], q[2])

Occupied(g, q) == InRange(q[1], q[2]) /\ g[q[1]][q[2]] # 0

RECURSIVE reachableLoop(_, _, _)
reachableLoop(g, stack, reachable) ==
  LET ok == {i \in 1..Len(stack) : stack[i] \notin reachable}
  IN  IF ok = {} THEN reachable
      ELSE LET j == CHOOSE i \in ok : \A k \in ok : k >= i
               top == stack[j]
               nb == SelectSeq(Pushed(top[1], top[2]), LAMBDA q : Occupied(g, q))
           IN  reachableLoop(g, nb \o SubSeq(stack, j + 1, Len(stack)),
                             reachable \cup {top})

\* the occupied cells of row 0, the last column on top
RowZeroStack(g) ==
  SelectSeq([i \in 1..cols |-> <<0, cols - i>>], LAMBDA q : g[0][q[2]] # 0)

Reachable(g) == reachableLoop(g, RowZeroStack(g), {})

\* the cells removeFloating clears, and the grid and score it leaves
FloatingCells(g) ==
  LET reach == Reachable(g)
  IN  {q \in Cells : g[q[1]][q[2]] # 0 /\ q \notin reach}

\* mutant of removeFloating: nothing is cleared
removeFloating_Nothing(g) == [grid |-> g, points |-> 0]

removeFloating(g) ==
  LET fl == FloatingCells(g)
  IN  [grid |-> [r \in RowIx |-> [c \in ColIx |->
                   IF <<r, c>> \in fl THEN 0 ELSE g[r][c]]],
       points |-> FloatPoints * Cardinality(fl)]


\* ------------------------------------------------------------ session state
VARIABLES
  grid,       \* gridRef.current: row -> col -> 0 | colour
  score,      \* React state score
  isRunning,  \* React state isRunning, as the running loop closure sees it
  shooter,    \* shooterRef.current: main, secondary, projectile, moving, animLock
  aim,        \* aimRef.current: angle, active
  anim,       \* animRef.current: active, age (performance.now() - start), duration, dir
  timers,     \* pending setTimeout callbacks: kind, dir, left (ms until due)
  inputs,     \* user inputs still to come in this run
  last,       \* the step just taken: op, its input, and for a landing the cell
              \* posToGrid chose, what it held, the cells popped and floated
  probe       \* connectivity harness: the call made on grid and what it returned

vars == <<grid, score, isRunning, shooter, aim, anim, timers, inputs, last, probe>>

NoCell == <<>>
DidWith(op, arg) ==
  [op |-> op, arg |-> arg, cell |-> NoCell, was |-> 0, popped |-> 0, floated |-> 0]
Did(op) == DidWith(op, <<>>)
NoProbe == [fn |-> "none", seed |-> NoCell, color |-> 0, out |-> {}, again |-> {}, before |-> EmptyGrid]

\* angles the pointer can give: straight up, up and to the right, straight down
Up == <<0, -AngleUnit>>
UpRight == <<(3 * AngleUnit) \div 5, -((4 * AngleUnit) \div 5)>>
Down == <<0, AngleUnit>>
Angles == {Up, UpRight, Down}

\* generateInitialGrid: rows below FilledRows get a random palette colour per cell.
\* The random draws are taken from striped colourings: pattern p gives cell
\* (row, col) the colour 1 + (a*row + b*col + s) % NumColors.
Patterns == {0, 1, 2}
PatternColor(p, row, col) ==
  LET a == p % 2
      b == (p \div 2) % 2
      s == (p \div 4) % NumColors
  IN  1 + ((a * row + b * col + s) % NumColors)

\* mutant of generateInitialGrid: one more row is filled
generateInitialGrid_OneMore(p) ==
  [row \in RowIx |-> [col \in ColIx |->
     IF row <= FilledRows THEN PatternColor(p, row, col) ELSE 0]]

generateInitialGrid(p) ==
  [row \in RowIx |-> [col \in ColIx |->
     IF row < FilledRows THEN PatternColor(p, row, col) ELSE 0]]

InitialGrids == {generateInitialGrid(p) : p \in Patterns}

Init ==
  /\ grid \in InitialGrids
  /\ score = 0
  /\ isRunning = TRUE
  /\ \E m \in Colors, s \in Colors :
       shooter = [main |-> m, secondary |-> s, projectile |-> <<>>, moving |-> FALSE,
                  animLock |-> FALSE]
  /\ aim = [angle |-> Up, active |-> FALSE]
  /\ anim = [active |-> FALSE, age |-> ShiftDuration, duration |-> ShiftDuration, dir |-> 0]
  /\ timers = {}
  /\ inputs = MaxInputs
  /\ last = Did("init")
  /\ probe = NoProbe

\* ------------------------------------------------------------ row shift
\* the data mutation of the commit callback
\* for (r = 0; r < rows - 1; r++) grid[r] = grid[r + 1], from row r on
RECURSIVE shiftUpLoop(_, _)
shiftUpLoop(g, r) ==
  IF r < rows - 1 THEN shiftUpLoop([g EXCEPT ![r] = g[r + 1]], r + 1) ELSE g

\* for (r = rows - 1; r >= 1; r--) grid[r] = grid[r - 1], from row r on
RECURSIVE shiftDownLoop(_, _)
shiftDownLoop(g, r) ==
  IF r >= 1 THEN shiftDownLoop([g EXCEPT ![r] = g[r - 1]], r - 1) ELSE g

\* mutant of shiftRows: the row at the far end is not replaced by an empty one
shiftRows_KeepsEdge(g, direction) ==
  IF direction = -1 THEN shiftUpLoop(g, 0) ELSE shiftDownLoop(g, rows - 1)

\* mutant of shiftRows: a shift down keeps the old last row as one more row
shiftRows_Grows(g, direction) ==
  IF direction = -1
  THEN [shiftUpLoop(g, 0) EXCEPT ![rows - 1] = EmptyRow]
  ELSE [r \in 0..rows |-> IF r >= 1 THEN g[r - 1] ELSE EmptyRow]

shiftRows(g, direction) ==
  IF direction = -1
  THEN [shiftUpLoop(g, 0) EXCEPT ![rows - 1] = EmptyRow]
  ELSE [shiftDownLoop(g, rows - 1) EXCEPT ![0] = EmptyRow]

\* mutant of startGridShift: no test of animRef.current.active
startGridShift_NoGuard(an, sh, tm, direction, duration) ==
  [anim |-> [active |-> TRUE, age |-> 0, duration |-> duration, dir |-> direction],
   shooter |-> [sh EXCEPT !.animLock = TRUE],
   timers |-> tm \cup {[kind |-> "commit", dir |-> direction, left |-> duration]}]

\* startGridShift: what it leaves in animRef, animLock and the timer queue
startGridShift(an, sh, tm, direction, duration) ==
  IF an.active
  THEN [anim |-> an, shooter |-> sh, timers |-> tm]
  ELSE [anim |-> [active |-> TRUE, age |-> 0, duration |-> duration, dir |-> direction],
        shooter |-> [sh EXCEPT !.animLock = TRUE],
        timers |-> tm \cup {[kind |-> "commit", dir |-> direction, left |-> duration]}]

\* Shift Up / Shift Down buttons
ShiftClick(direction) ==
  /\ inputs > 0
  /\ LET r == startGridShift(anim, shooter, timers, direction, ShiftDuration)
     IN  /\ anim' = r.anim
         /\ shooter' = r.shooter
         /\ timers' = r.timers
  /\ inputs' = inputs - 1
  /\ last' = DidWith(IF anim.active THEN "shiftIgnored" ELSE "shift", <<direction>>)
  /\ UNCHANGED <<grid, score, isRunning, aim, probe>>

\* mutant of TimerCommit: the active flag is cleared with the data shift, the
\* lock by the unlock that follows
TimerCommit_ClearsActive ==
  \E t \in timers :
    /\ t.kind = "commit"
    /\ t.left = 0
    /\ grid' = shiftRows(grid, t.dir)
    /\ anim' = [anim EXCEPT !.active = FALSE]
    /\ timers' = (timers \ {t}) \cup {[kind |-> "unlock", dir |-> t.dir, left |-> UnlockDelay]}
    /\ last' = Did("commit")
    /\ UNCHANGED <<score, isRunning, shooter, aim, inputs, probe>>

\* the outer setTimeout callback: shift the data, schedule the unlock
TimerCommit ==
  \E t \in timers :
    /\ t.kind = "commit"
    /\ t.left = 0
    /\ grid' = shiftRows(grid, t.dir)
    /\ timers' = (timers \ {t}) \cup {[kind |-> "unlock", dir |-> t.dir, left |-> UnlockDelay]}
    /\ last' = Did("commit")
    /\ UNCHANGED <<score, isRunning, shooter, aim, anim, inputs, probe>>

\* the inner setTimeout callback
TimerUnlock ==
  \E t \in timers :
    /\ t.kind = "unlock"
    /\ t.left = 0
    /\ anim' = [anim EXCEPT !.active = FALSE]
    /\ shooter' = [shooter EXCEPT !.animLock = FALSE]
    /\ timers' = timers \ {t}
    /\ last' = Did("unlock")
    /\ UNCHANGED <<grid, score, isRunning, aim, inputs, probe>>

\* TimeStep ms pass: timers come closer to due, animations grow older
Elapse(left) == Max(0, left - TimeStep)
Advance ==
  /\ \/ \E t \in timers : t.left > 0
     \/ anim.age < anim.duration
  /\ timers' = {[t EXCEPT !.left = Elapse(t.left)] : t \in timers}
  /\ anim' = [anim EXCEPT !.age = Min(anim.duration, anim.age + TimeStep)]
  /\ last' = Did("advance")
  /\ UNCHANGED <<grid, score, isRunning, shooter, aim, inputs, probe>>


\* ------------------------------------------------------------ fire
RECURSIVE ISqrtIn(_, _, _)
ISqrtIn(n, lo, hi) ==
  IF lo >= hi THEN lo
  ELSE LET mid == (lo + hi + 1) \div 2
       IN  IF mid * mid <= n THEN ISqrtIn(n, mid, hi) ELSE ISqrtIn(n, lo, mid - 1)
ISqrt(n) == ISqrtIn(n, 0, 2 * AngleUnit)

\* a / b rounded to the nearest integer, b > 0
RDiv(a, b) == (2 * a + b) \div (2 * b)

\* minVy = -0.02 in 1/AngleUnit
minVy == -((2 * AngleUnit) \div 100)

\* velocity of a shot at `angle`: sin above minVy is clamped to minVy and the
\* angle recomputed with atan2, then scaled by the speed
fireVelocity(angle) ==
  LET vx == angle[1]
      vy == angle[2]
      cy == IF vy > minVy THEN minVy ELSE vy
      n == IF vy > minVy THEN ISqrt(vx * vx + cy * cy) ELSE AngleUnit
  IN  [vx |-> RDiv(fireSpeed * SubPx * vx, n), vy |-> RDiv(fireSpeed * SubPx * cy, n)]

\* the shooter with a shot of its main colour in the air
Launched(sh, angle, next, moving) ==
  LET v == fireVelocity(angle)
  IN  [sh EXCEPT !.projectile = <<[x |-> ShooterX, y |-> ShooterY, vx |-> v.vx,
                                   vy |-> v.vy, radius |-> ShooterRadius,
                                   color |-> sh.main, alive |-> TRUE]>>,
                 !.moving = moving,
                 !.main = sh.secondary,
                 !.secondary = next]

\* mutant of fire: the shift lock is not tested
fire_IgnoresLock(sh, am, angle, next) ==
  IF sh.moving
  THEN [shooter |-> sh, aim |-> am]
  ELSE [shooter |-> Launched(sh, angle, next, TRUE), aim |-> [am EXCEPT !.active = FALSE]]

\* mutant of fire: the moving flag is not set
fire_NotMoving(sh, am, angle, next) ==
  IF sh.moving \/ sh.animLock
  THEN [shooter |-> sh, aim |-> am]
  ELSE [shooter |-> Launched(sh, angle, next, FALSE), aim |-> [am EXCEPT !.active = FALSE]]

\* fire(angle): the shooter and aim it leaves, with `next` the random secondary
fire(sh, am, angle, next) ==
  IF sh.moving \/ sh.animLock
  THEN [shooter |-> sh, aim |-> am]
  ELSE [shooter |-> Launched(sh, angle, next, TRUE), aim |-> [am EXCEPT !.active = FALSE]]

\* ------------------------------------------------------------ pointer input
\* onPointerMove with the pointer at `angle` from the shooter
PointerMove(angle) ==
  /\ inputs > 0
  /\ aim' = IF shooter.moving THEN aim ELSE [angle |-> angle, active |-> TRUE]
  /\ inputs' = inputs - 1
  /\ last' = DidWith("move", angle)
  /\ UNCHANGED <<grid, score, isRunning, shooter, anim, timers, probe>>

\* onPointerDown on the secondary bubble: swap
Swap ==
  /\ inputs > 0
  /\ shooter' = [shooter EXCEPT !.main = shooter.secondary, !.secondary = shooter.main]
  /\ inputs' = inputs - 1
  /\ last' = Did("swap")
  /\ UNCHANGED <<grid, score, isRunning, aim, anim, timers, probe>>

\* onPointerDown anywhere else, at `angle` from the shooter: attempt to shoot
Tap(angle) ==
  /\ inputs > 0
  /\ LET aimed == [angle |-> angle, active |-> TRUE]
     IN  IF angle[2] < 0 /\ ~shooter.moving
         THEN \E next \in Colors :
                LET r == fire(shooter, aimed, angle, next)
                IN  shooter' = r.shooter /\ aim' = r.aim
         ELSE shooter' = shooter /\ aim' = aimed
  /\ inputs' = inputs - 1
  /\ last' = DidWith("tap", angle)
  /\ UNCHANGED <<grid, score, isRunning, anim, timers, probe>>

\* ------------------------------------------------------------ session controls
\* mutant of Restart: the shift in flight is cancelled with the rest
Restart_Cancels ==
  /\ inputs > 0
  /\ grid' \in InitialGrids
  /\ score' = 0
  /\ anim' = [anim EXCEPT !.active = FALSE]
  /\ shooter' = [shooter EXCEPT !.animLock = FALSE]
  /\ timers' = {}
  /\ inputs' = inputs - 1
  /\ last' = Did("restart")
  /\ UNCHANGED <<isRunning, aim, probe>>

Restart ==
  /\ inputs > 0
  /\ grid' \in InitialGrids
  /\ score' = 0
  /\ inputs' = inputs - 1
  /\ last' = Did("restart")
  /\ UNCHANGED <<isRunning, shooter, aim, anim, timers, probe>>

TogglePause ==
  /\ inputs > 0
  /\ isRunning' = ~isRunning
  /\ inputs' = inputs - 1
  /\ last' = Did("pause")
  /\ UNCHANGED <<grid, score, shooter, aim, anim, timers, probe>>


\* ------------------------------------------------------------ landing
SetCell(g, r, c, v) == [g EXCEPT ![r] = [g[r] EXCEPT ![c] = v]]
ClearCells(g, qs) ==
  [r \in RowIx |-> [c \in ColIx |-> IF <<r, c>> \in qs THEN 0 ELSE g[r][c]]]

\* mutant of cellFree: the shot is placed whatever the cell holds
cellFree_Always(g, q) == TRUE

\* the test of the landing cell: empty cells take the shot
cellFree(g, q) == g[q.row][q.col] = 0

\* mutant of stopProjectileAndSnap: removeFloating runs after every placement
stopProjectileAndSnap_AlwaysSweeps(g, sc, p) ==
  LET q == posToGrid(p.x, p.y)
      placed == SetCell(g, q.row, q.col, p.color)
      matched == floodFill(placed, q.row, q.col, p.color)
      big == Cardinality(matched) >= MatchMin
      popped == IF big THEN ClearCells(placed, matched) ELSE placed
      fl == removeFloating(popped)
      at == [cell |-> <<q.row, q.col>>, was |-> g[q.row][q.col]]
  IN  IF ~cellFree(g, q)
      THEN [grid |-> g, score |-> sc, at |-> at, popped |-> 0, floated |-> 0]
      ELSE [grid |-> fl.grid,
            score |-> sc + (IF big THEN Cardinality(matched) * MatchPoints ELSE 0) + fl.points,
            at |-> at, popped |-> IF big THEN Cardinality(matched) ELSE 0,
            floated |-> fl.points \div FloatPoints]

\* stopProjectileAndSnap for projectile p: the grid and score it leaves, with the
\* cell posToGrid chose, what it held, and how many cells popped and floated
\* (the caller's record clears the projectile)
stopProjectileAndSnap(g, sc, p) ==
  LET q == posToGrid(p.x, p.y)
      placed == SetCell(g, q.row, q.col, p.color)
      matched == floodFill(placed, q.row, q.col, p.color)
      popped == ClearCells(placed, matched)
      fl == removeFloating(popped)
      at == [cell |-> <<q.row, q.col>>, was |-> g[q.row][q.col]]
  IN  IF ~cellFree(g, q)
      THEN [grid |-> g, score |-> sc, at |-> at, popped |-> 0, floated |-> 0]
      ELSE IF Cardinality(matched) >= MatchMin
      THEN [grid |-> fl.grid,
            score |-> sc + Cardinality(matched) * MatchPoints + fl.points,
            at |-> at, popped |-> Cardinality(matched), floated |-> fl.points \div FloatPoints]
      ELSE [grid |-> placed, score |-> sc, at |-> at, popped |-> 0, floated |-> 0]

\* mutant of stepProjectile: a wall reflects the vertical velocity too
stepProjectile_FlipsVy(p) ==
  LET x1 == p.x + p.vx
      y1 == p.y + p.vy
      hitL == x1 - p.radius < 0
      x2 == IF hitL THEN p.radius ELSE x1
      vx2 == IF hitL THEN -p.vx ELSE p.vx
      hitR == x2 + p.radius > CanvasWidth
      x3 == IF hitR THEN CanvasWidth - p.radius ELSE x2
      vx3 == IF hitR THEN -vx2 ELSE vx2
  IN  [p EXCEPT !.x = x3, !.y = y1, !.vx = vx3,
                !.vy = IF hitL \/ hitR THEN -p.vy ELSE p.vy]

\* the projectile after one integration step with the wall reflections
stepProjectile(p) ==
  LET x1 == p.x + p.vx
      y1 == p.y + p.vy
      hitL == x1 - p.radius < 0
      x2 == IF hitL THEN p.radius ELSE x1
      vx2 == IF hitL THEN -p.vx ELSE p.vx
      hitR == x2 + p.radius > CanvasWidth
      x3 == IF hitR THEN CanvasWidth - p.radius ELSE x2
      vx3 == IF hitR THEN -vx2 ELSE vx2
  IN  [p EXCEPT !.x = x3, !.y = y1, !.vx = vx3]

touchesCeiling(p) == p.y - p.radius <= 0

touchesCell(g, p) ==
  LET reach == p.radius + ((cellSize \div 2) - 1) * SubPx
  IN  \E r \in RowIx : \E c \in ColIx :
        /\ g[r][c] # 0
        /\ Dist2(CenterX(r, c), CenterY(r), p.x, p.y) <= reach * reach

\* updatePhysics: grid, score and shooter after the tick, and the landing made
NoLanding == [grid |-> EmptyGrid, score |-> 0, at |-> [cell |-> NoCell, was |-> 0],
              popped |-> 0, floated |-> 0]

updatePhysics(g, sc, sh) ==
  IF sh.projectile = <<>> \/ ~sh.projectile[1].alive
  THEN [grid |-> g, score |-> sc, shooter |-> sh, landing |-> NoLanding]
  ELSE LET p == stepProjectile(sh.projectile[1])
           pc == [p EXCEPT !.y = p.radius]
           landed == [sh EXCEPT !.projectile = <<>>, !.moving = FALSE]
       IN  IF touchesCeiling(p)
           THEN LET r == stopProjectileAndSnap(g, sc, pc)
                IN  [grid |-> r.grid, score |-> r.score, shooter |-> landed, landing |-> r]
           ELSE IF touchesCell(g, p)
           THEN LET r == stopProjectileAndSnap(g, sc, p)
                IN  [grid |-> r.grid, score |-> r.score, shooter |-> landed, landing |-> r]
           ELSE [grid |-> g, score |-> sc,
                 shooter |-> [sh EXCEPT !.projectile = <<p>>], landing |-> NoLanding]

\* the offset loop() hands to drawGrid, in 1/SubPx pixel
easeOutQuadOf(age, duration, scale) ==
  LET d == Max(1, duration)
      a == Min(d, age)
  IN  (scale * (d * d - (d - a) * (d - a))) \div (d * d)

drawOffset(an) ==
  IF an.active
  THEN -an.dir * easeOutQuadOf(an.age, an.duration, (cellSize - 3) * SubPx)
  ELSE 0

\* ------------------------------------------------------------ game loop
\* loop() while running: draw, then the physics tick unless a shift is active
Frame ==
  /\ isRunning
  /\ LET r == IF anim.active
              THEN [grid |-> grid, score |-> score, shooter |-> shooter, landing |-> NoLanding]
              ELSE updatePhysics(grid, score, shooter)
     IN  /\ grid' = r.grid
         /\ score' = r.score
         /\ shooter' = r.shooter
         /\ last' = IF r.landing.at.cell = NoCell THEN Did("frame")
                    ELSE [op |-> "land", arg |-> <<>>, cell |-> r.landing.at.cell,
                          was |-> r.landing.at.was, popped |-> r.landing.popped,
                          floated |-> r.landing.floated]
  /\ UNCHANGED <<isRunning, aim, anim, timers, inputs, probe>>

\* loop() while paused: only the next frame is requested
FramePaused ==
  /\ ~isRunning
  /\ last' = Did("paused")
  /\ UNCHANGED <<grid, score, isRunning, shooter, aim, anim, timers, inputs, probe>>

Next ==
  \/ \E a \in Angles : PointerMove(a)
  \/ \E a \in Angles : Tap(a)
  \/ Swap
  \/ \E d \in {-1, 1} : ShiftClick(d)
  \/ Restart
  \/ TogglePause
  \/ Frame
  \/ FramePaused
  \/ Advance
  \/ TimerCommit
  \/ TimerUnlock

Spec == Init /\ [][Next]_vars

\* The browser lets time pass and runs every setTimeout callback that is due.
SpecLive ==
  /\ Init
  /\ [][Next]_vars
  /\ WF_vars(Advance)
  /\ WF_vars(TimerCommit)
  /\ WF_vars(TimerUnlock)


\* ------------------------------------------------------------ reference notions
\* Hex adjacency read off the layout: two distinct cells whose circles' centres
\* are no further apart than one cell size.
HexPairs ==
  {ab \in Cells \X Cells :
     /\ ab[1] # ab[2]
     /\ Dist2(CenterX(ab[1][1], ab[1][2]), CenterY(ab[1][1]),
              CenterX(ab[2][1], ab[2][2]), CenterY(ab[2][1]))
          <= (cellSize * SubPx) * (cellSize * SubPx)}

HexAdjacent(a, b) == <<a, b>> \in HexPairs

\* the least set holding S and closed under adjacency within `allowed`
RECURSIVE Grow(_, _)
Grow(S, allowed) ==
  LET more == {q \in allowed \ S : \E n \in S : HexAdjacent(q, n)}
  IN  IF more = {} THEN S ELSE Grow(S \cup more, allowed)

CellsOf(g, color) == {q \in Cells : g[q[1]][q[2]] = color}
OccupiedCells(g) == {q \in Cells : g[q[1]][q[2]] # 0}

\* the cluster of `color` holding `seed`
ClusterOf(g, seed, color) ==
  LET same == CellsOf(g, color)
  IN  IF color # 0 /\ seed \in same THEN Grow({seed}, same) ELSE {}

\* the occupied cells joined to an occupied cell of row 0, and the others
AnchoredOf(g) ==
  LET occ == OccupiedCells(g)
  IN  Grow({q \in occ : q[1] = 0}, occ)
FloatingOf(g) == OccupiedCells(g) \ AnchoredOf(g)

\* a shift is in flight while its commit or its unlock is still to run
ShiftInFlight == timers # {}
CommitTimers(tm) == {t \in tm : t.kind = "commit"}

NoProjectile(sh) == sh.projectile = <<>> /\ ~sh.moving

\* ------------------------------------------------------------ claims
\* C1: while a row shift is in flight (a commit or unlock timer is pending) no
\* step moves the projectile or lands it, and no fire attempt creates one.
C1_ShiftExcludesProjectile ==
  [][ShiftInFlight =>
       /\ shooter'.projectile = shooter.projectile
       /\ shooter'.moving = shooter.moving
       /\ last'.op # "land"]_vars

\* C1 witness: a running frame has just been drawn during a shift with a
\* projectile in the air.
C1_Witness ==
  /\ ShiftInFlight
  /\ isRunning
  /\ shooter.projectile # <<>>
  /\ last.op = "frame"

\* C2: a shift request during a shift changes nothing; an accepted one schedules
\* exactly one commit, due after the full duration; a commit runs only for a
\* due commit timer, which it consumes, and no other step removes one, so the
\* grid is shifted exactly once per accepted request.
C2_OneShiftPerStart ==
  [][/\ (last'.op \in {"shift", "shiftIgnored"} /\ ShiftInFlight) =>
          /\ UNCHANGED <<anim, timers, grid, shooter>>
          /\ last'.op = "shiftIgnored"
     /\ (last'.op \in {"shift", "shiftIgnored"} /\ ~ShiftInFlight) =>
          /\ last'.op = "shift"
          /\ timers' = {[kind |-> "commit", dir |-> last'.arg[1], left |-> ShiftDuration]}
          /\ anim' = [active |-> TRUE, age |-> 0, duration |-> ShiftDuration,
                      dir |-> last'.arg[1]]
          /\ grid' = grid
     /\ Cardinality(CommitTimers(timers')) <= 1
     /\ last'.op = "commit" =>
          /\ \E t \in CommitTimers(timers) : t.left = 0 /\ grid' = shiftRows(grid, t.dir)
          /\ anim.active /\ anim.age >= anim.duration /\ anim.duration = ShiftDuration
          /\ CommitTimers(timers') = {}
     /\ (CommitTimers(timers) # {} /\ CommitTimers(timers') = {}) => last'.op = "commit"
     /\ \A t \in CommitTimers(timers') : t.left > 0 =>
          \/ last'.op = "shift"
          \/ \E u \in CommitTimers(timers) : u.dir = t.dir /\ u.left >= t.left]_vars

\* C2 witness: a second request has just been ignored, the first one's commit
\* still due after the full duration.
C2_Witness ==
  /\ last.op = "shiftIgnored"
  /\ \E t \in timers : t.kind = "commit" /\ t.left = ShiftDuration
  /\ anim.active /\ anim.age = 0

\* C3: after a restart there is no projectile, no active shift, no lock, and no
\* commit left to run on the new grid.
C3_RestartDiscardsAll ==
  last.op = "restart" =>
    /\ NoProjectile(shooter)
    /\ ~anim.active
    /\ ~shooter.animLock
    /\ CommitTimers(timers) = {}

\* C3 failing run: a restart has just been pressed with a shot in the air, which
\* is still there and still moving.
C3_Witness ==
  /\ last.op = "restart"
  /\ shooter.moving
  /\ shooter.projectile # <<>>

\* C4: a tap away from the secondary bubble while a projectile moves, while the
\* aim is not upward, or while the shift lock is set, changes no state.
C4_RejectedFireChangesNothing ==
  [][(/\ last'.op = "tap"
      /\ (shooter.moving \/ shooter.animLock \/ last'.arg[2] >= 0)) =>
       UNCHANGED <<grid, score, shooter, aim, anim, timers, isRunning>>]_vars

\* C4 failing run: a tap made while the shot was already above the shooter has
\* just been rejected, and the aim is now active during the flight.
C4_Witness ==
  /\ last.op = "tap"
  /\ shooter.moving
  /\ shooter.projectile # <<>>
  /\ shooter.projectile[1].y < ShooterY
  /\ aim.active

\* C5: either there is no projectile and moving is false, or moving is true and
\* there is exactly one projectile, alive.
C5_MovingIffProjectile ==
  \/ NoProjectile(shooter)
  \/ /\ shooter.moving
     /\ Len(shooter.projectile) = 1
     /\ shooter.projectile[1].alive

\* C5 witness: a physics tick has just moved a live projectile.
C5_Witness ==
  /\ last.op = "frame"
  /\ shooter.moving
  /\ shooter.projectile # <<>>
  /\ shooter.projectile[1].y < ShooterY


\* a landing step on cell q; the shot's colour and the grid with the shot placed
LandingAt(q) == last'.op = "land" /\ last'.cell = q /\ shooter.projectile # <<>>
ShotColor == shooter.projectile[1].color
PlacedAt(q) == SetCell(grid, q[1], q[2], ShotColor)

\* C6: a landing whose nearest cell is occupied leaves the grid and the score as
\* they were and clears the projectile; no landing changes the colour of an
\* occupied cell to another colour.
C6_OccupiedCellKept ==
  [][\A q \in Cells : LandingAt(q) =>
       /\ grid[q[1]][q[2]] # 0 =>
            /\ grid' = grid
            /\ score' = score
            /\ NoProjectile(shooter')
       /\ \A o \in OccupiedCells(grid) :
            grid'[o[1]][o[2]] \in {0, grid[o[1]][o[2]]}]_vars

\* C6 witness: a shot has just been discarded on an occupied cell.
C6_Witness ==
  /\ last.op = "land"
  /\ last.was # 0
  /\ grid[last.cell[1]][last.cell[2]] = last.was
  /\ NoProjectile(shooter)

\* C7: a landing in an empty cell whose cluster has k >= 3 cells clears the k
\* cells, then the f floating cells of the grid so popped, adds 10*k + 5*f to
\* the score and clears the projectile.
C7_PopAndFloat ==
  [][\A q \in Cells : (LandingAt(q) /\ grid[q[1]][q[2]] = 0) =>
       LET cluster == ClusterOf(PlacedAt(q), q, ShotColor)
           popped == ClearCells(PlacedAt(q), cluster)
           floating == FloatingOf(popped)
       IN  Cardinality(cluster) >= 3 =>
             /\ grid' = ClearCells(popped, floating)
             /\ score' = score + 10 * Cardinality(cluster) + 5 * Cardinality(floating)
             /\ NoProjectile(shooter')]_vars

\* C7 witness: a landing has just popped a cluster and dropped floating cells.
C7_Witness ==
  /\ last.op = "land"
  /\ last.was = 0
  /\ last.popped >= 3
  /\ last.floated > 0
  /\ score = 10 * last.popped + 5 * last.floated
  /\ NoProjectile(shooter)

\* C8: a landing in an empty cell whose cluster has one or two cells only puts
\* the shot's colour in that cell: nothing is cleared, floating cells stay, and
\* the score is unchanged.
C8_SmallClusterJoins ==
  [][\A q \in Cells : (LandingAt(q) /\ grid[q[1]][q[2]] = 0) =>
       LET cluster == ClusterOf(PlacedAt(q), q, ShotColor)
       IN  Cardinality(cluster) < 3 =>
             /\ grid' = PlacedAt(q)
             /\ score' = score
             /\ OccupiedCells(PlacedAt(q)) = OccupiedCells(grid) \cup {q}
             /\ NoProjectile(shooter')]_vars

\* C8 witness: a shot has just joined the grid without a pop while floating
\* cells were there, and they still are.
C8_Witness ==
  /\ last.op = "land"
  /\ last.was = 0
  /\ grid[last.cell[1]][last.cell[2]] # 0
  /\ Cardinality(FloatingOf(grid)) > 1


\* ------------------------------------------------------------ connectivity harness
\* floodFill and removeFloating called on their own, on every grid whose
\* occupied cells lie in a block of three rows by two columns under the ceiling
\* (a cell of an odd row with five of its neighbours, rows of both parities).
ProbeBlock == {<<0, 1>>, <<0, 2>>, <<1, 1>>, <<1, 2>>, <<2, 1>>, <<2, 2>>}
ProbeSeeds == ProbeBlock \cup {<<rows - 1, cols - 1>>}

ProbeGrids ==
  {[r \in RowIx |-> [c \in ColIx |-> IF <<r, c>> \in ProbeBlock THEN f[<<r, c>>] ELSE 0]] :
     f \in [ProbeBlock -> {0} \cup Colors]}

InitConn ==
  /\ grid \in ProbeGrids
  /\ score = 0
  /\ isRunning = TRUE
  /\ shooter = [main |-> 1, secondary |-> 1, projectile |-> <<>>, moving |-> FALSE,
                animLock |-> FALSE]
  /\ aim = [angle |-> Up, active |-> FALSE]
  /\ anim = [active |-> FALSE, age |-> ShiftDuration, duration |-> ShiftDuration, dir |-> 0]
  /\ timers = {}
  /\ inputs = 0
  /\ last = Did("init")
  /\ probe = NoProbe

\* floodFill(seed, color) on the grid as it stands
ProbeFloodFill(seed, color) ==
  /\ probe.fn \in {"none", "removeFloating"}
  /\ probe' = [fn |-> "floodFill", seed |-> seed, color |-> color,
               out |-> floodFill(grid, seed[1], seed[2], color), again |-> {},
               before |-> grid]
  /\ UNCHANGED <<grid, score, isRunning, shooter, aim, anim, timers, inputs, last>>

\* the same call once more
ProbeFloodFillAgain ==
  /\ probe.fn = "floodFill"
  /\ probe' = [probe EXCEPT !.fn = "floodFillAgain",
                            !.again = floodFill(grid, probe.seed[1], probe.seed[2], probe.color)]
  /\ UNCHANGED <<grid, score, isRunning, shooter, aim, anim, timers, inputs, last>>

\* removeFloating() on the grid as it stands
ProbeRemoveFloating ==
  /\ probe.fn # "removeFloating"
  /\ LET r == removeFloating(grid)
     IN  /\ grid' = r.grid
         /\ score' = score + r.points
         /\ probe' = [fn |-> "removeFloating", seed |-> NoCell, color |-> 0,
                      out |-> FloatingCells(grid), again |-> {}, before |-> grid]
  /\ score < FloatPoints * Cardinality(ProbeBlock)
  /\ UNCHANGED <<isRunning, shooter, aim, anim, timers, inputs, last>>

NextConn ==
  \/ \E seed \in ProbeSeeds, color \in Colors : ProbeFloodFill(seed, color)
  \/ ProbeFloodFillAgain
  \/ ProbeRemoveFloating

SpecConn == InitConn /\ [][NextConn]_vars

\* C9: removeFloating clears exactly the occupied cells with no path of occupied
\* cells to an occupied cell of row 0, keeps every other cell as it was, and
\* leaves no floating cell.
C9_RemoveFloatingExact ==
  probe.fn = "removeFloating" =>
    LET floating == FloatingOf(probe.before)
        anchored == AnchoredOf(probe.before)
    IN  /\ grid = ClearCells(probe.before, floating)
        /\ \A q \in anchored : grid[q[1]][q[2]] = probe.before[q[1]][q[2]]
        /\ \A c \in ColIx : grid[0][c] = probe.before[0][c]
        /\ FloatingOf(grid) = {}
        /\ probe.out = floating

\* C9 witness: removeFloating has just cleared a floating cell and kept an
\* anchored cell below row 0.
C9_Witness ==
  /\ probe.fn = "removeFloating"
  /\ probe.out # {}
  /\ \E q \in OccupiedCells(grid) : q[1] > 0

\* C10: floodFill(seed, colour) returns the cluster of that colour holding the
\* seed (occupied, of the colour, joined to the seed through cells of the
\* colour, and maximal), leaves the grid alone, and returns the same set again.
C10_FloodFillIsCluster ==
  probe.fn \in {"floodFill", "floodFillAgain"} =>
    LET same == CellsOf(probe.before, probe.color)
    IN  /\ probe.out = ClusterOf(probe.before, probe.seed, probe.color)
        /\ probe.out \subseteq same
        /\ \A q \in probe.out : \A n \in same : HexAdjacent(q, n) => n \in probe.out
        /\ probe.seed \in same => probe.seed \in probe.out
        /\ grid = probe.before
        /\ probe.fn = "floodFillAgain" => probe.again = probe.out

\* C10 witness: floodFill has been run twice and returned a cluster of three or
\* more cells that is not every cell of its colour.
C10_Witness ==
  /\ probe.fn = "floodFillAgain"
  /\ Cardinality(probe.out) >= 3
  /\ probe.out # CellsOf(grid, probe.color)


\* ------------------------------------------------------------ claims on the row shift
\* C11: the commit of a shift of direction -1 puts old row r+1 in row r for every
\* r < rows-1 and leaves the last row empty; the commit of direction +1 puts old
\* row r-1 in row r for every r >= 1 and leaves row 0 empty; the grid keeps its
\* rows, and score, shooter, aim and the animation record are not touched.
C11_CommitMovesRows ==
  [][last'.op = "commit" =>
       \E t \in CommitTimers(timers) :
         /\ t.left = 0
         /\ DOMAIN grid' = RowIx
         /\ t.dir = -1 =>
              /\ \A r \in RowIx : r < rows - 1 => grid'[r] = grid[r + 1]
              /\ \A c \in ColIx : grid'[rows - 1][c] = 0
         /\ t.dir = 1 =>
              /\ \A r \in RowIx : r >= 1 => grid'[r] = grid[r - 1]
              /\ \A c \in ColIx : grid'[0][c] = 0
         /\ UNCHANGED <<score, shooter, aim, anim, isRunning>>]_vars

\* C11 witness: a shift down has just been committed: row 0 is empty and the
\* rows that were filled sit one index lower.
C11_Witness ==
  /\ last.op = "commit"
  /\ \A c \in ColIx : grid[0][c] = 0
  /\ \A c \in ColIx : grid[FilledRows][c] # 0
  /\ \A c \in ColIx : grid[1][c] # 0

\* C12: at the commit of a shift the contents of row r go to row r + dir, and
\* the offset drawn at the end of the animation had put row r where row
\* r + dir is drawn: the final frame of the animation and the committed grid
\* show every surviving row at the same height.
C12_OffsetMatchesCommit ==
  [][last'.op = "commit" =>
       \E t \in CommitTimers(timers) :
         /\ t.left = 0
         /\ \A r \in RowIx : (r + t.dir) \in RowIx =>
              /\ grid'[r + t.dir] = grid[r]
              /\ gridToPosY(r) + drawOffset(anim) = gridToPosY(r + t.dir)]_vars

\* C12 failing run: the commit of a shift of direction -1 (contents go toward
\* row 0) is due, and the animation has drawn the grid one full row height
\* further down.
C12_Witness ==
  /\ \E t \in CommitTimers(timers) : t.left = 0 /\ t.dir = -1
  /\ anim.active
  /\ anim.dir = -1
  /\ drawOffset(anim) = (cellSize - 3) * SubPx
  /\ gridToPosY(1) + drawOffset(anim) = gridToPosY(2)

\* C13: every accepted shift is followed by its commit; the active flag and the
\* lock are cleared by the unlock callback alone, once no commit is pending, and
\* an unlock is scheduled by a commit alone.
C13_ShiftRunsToCompletion ==
  /\ (last.op = "shift") ~> (last.op = "commit")
  /\ (last.op = "commit") ~> (~anim.active /\ ~shooter.animLock)
  /\ [][((anim.active /\ ~anim'.active) \/ (shooter.animLock /\ ~shooter'.animLock)) =>
          (last'.op = "unlock" /\ CommitTimers(timers) = {})]_vars
  /\ [][((\E t \in timers' : t.kind = "unlock") /\ ~(\E t \in timers : t.kind = "unlock")) =>
          last'.op = "commit"]_vars
  /\ [][(CommitTimers(timers) # {} /\ CommitTimers(timers') = {}) => last'.op = "commit"]_vars

\* C13 witness: a shift has just been unlocked while the game was paused.
C13_Witness ==
  /\ last.op = "unlock"
  /\ ~isRunning
  /\ ~anim.active
  /\ ~shooter.animLock
  /\ timers = {}

\* ------------------------------------------------------------ claims on pause, swap and aim
\* C14: while the game is paused no frame, no passage of time and no timer
\* callback changes the grid, the score, the projectile, the moving flag, the
\* lock or the active flag of the shift.
C14_PauseFreezesAll ==
  [][(~isRunning /\ last'.op \in {"paused", "frame", "land", "advance", "commit", "unlock"}) =>
       /\ grid' = grid
       /\ score' = score
       /\ shooter' = shooter
       /\ anim'.active = anim.active]_vars

\* C14 failing run: a commit has just shifted the grid while the game is paused.
C14_Witness ==
  /\ ~isRunning
  /\ last.op = "commit"
  /\ \A c \in ColIx : grid[rows - 1][c] = 0
  /\ \E t \in timers : t.kind = "unlock"

\* C15: a swap request while a projectile moves leaves the shooter as it is;
\* otherwise it exchanges main and secondary; grid and score are unchanged and
\* nothing else of the shooter changes.
C15_SwapOnlyWhenIdle ==
  [][last'.op = "swap" =>
       /\ shooter.moving => shooter' = shooter
       /\ ~shooter.moving =>
            shooter' = [shooter EXCEPT !.main = shooter.secondary,
                                       !.secondary = shooter.main]
       /\ grid' = grid
       /\ score' = score]_vars

\* C15 failing run: a swap has just been made with a shot in the air, and the
\* two loaded colours differ.
C15_Witness ==
  /\ last.op = "swap"
  /\ shooter.moving
  /\ shooter.projectile # <<>>
  /\ shooter.main # shooter.secondary

\* C16: the aim is active only while no projectile is moving.
C16_AimOnlyWhenIdle == aim.active => ~shooter.moving

\* C16 failing run: a physics tick has just moved the shot while the aim is
\* active.
C16_Witness ==
  /\ last.op = "frame"
  /\ aim.active
  /\ shooter.moving
  /\ shooter.projectile # <<>>

\* ------------------------------------------------------------ claims on the grid's shape
\* C19: right after a restart every cell of rows 0..3 holds a palette colour,
\* every cell of rows 4..9 is empty and the score is zero.
C19_RestartGrid ==
  last.op = "restart" =>
    /\ \A r \in 0..3 : \A c \in 0..7 : grid[r][c] \in Colors
    /\ \A r \in 4..9 : \A c \in 0..7 : grid[r][c] = 0
    /\ score = 0

\* C19 witness: a restart has just been pressed while a shift was waiting for
\* its commit.
C19_Witness ==
  /\ last.op = "restart"
  /\ CommitTimers(timers) # {}
  /\ anim.active
  /\ score = 0
  /\ grid[3][0] # 0

\* C20: the grid has exactly `rows` rows of exactly `cols` cells, each empty or
\* holding one palette colour.
C20_GridShape ==
  /\ DOMAIN grid = 0..(rows - 1)
  /\ \A r \in DOMAIN grid :
       /\ DOMAIN grid[r] = 0..(cols - 1)
       /\ \A c \in DOMAIN grid[r] : grid[r][c] \in {0} \cup Colors

\* C20 witness: a shift has just been committed on a grid that a landing had
\* popped.
C20_Witness ==
  /\ last.op = "commit"
  /\ score > 0
  /\ grid # EmptyGrid

\* ------------------------------------------------------------ trajectory predictor
\* the parameter t of segmentIntersectsCircle is kept in 1/ParamUnit
ParamUnit == 200

\* t = clamp(((cx - sx) * dx + (cy - sy) * dy) / l2, 0, 1), in 1/ParamUnit
closestParam(sx, sy, dx, dy, l2, cx, cy) ==
  LET dot == (cx - sx) * dx + (cy - sy) * dy
  IN  IF dot <= 0 THEN 0
      ELSE IF dot >= l2 THEN ParamUnit
      ELSE Min(ParamUnit, RDiv(dot, Max(1, RDiv(l2, ParamUnit))))

\* the point of the segment from (sx, sy) to (ex, ey) closest to (cx, cy)
closestPoint(sx, sy, ex, ey, cx, cy) ==
  LET dx == ex - sx
      dy == ey - sy
      l2 == dx * dx + dy * dy
      t == closestParam(sx, sy, dx, dy, IF l2 = 0 THEN 1 ELSE l2, cx, cy)
  IN  [x |-> sx + RDiv(t * dx, ParamUnit), y |-> sy + RDiv(t * dy, ParamUnit)]

segmentIntersectsCircle(sx, sy, ex, ey, cx, cy, r) ==
  LET dx == ex - sx
      dy == ey - sy
      l2 == dx * dx + dy * dy
      p == closestPoint(sx, sy, ex, ey, cx, cy)
  IN  IF l2 = 0
      THEN Dist2(cx, cy, sx, sy) <= r * r
      ELSE Dist2(p.x, p.y, cx, cy) <= r * r

\* cellR + projR - 0.5
hitRadius == ((cellSize \div 2) - 1) * SubPx + ShooterRadius - SubPx \div 2

\* the cell at which the double loop of computeTrajectory breaks: the first
\* occupied cell in row-major order whose circle the segment intersects
firstHitInScan(g, sx, sy, ex, ey) ==
  LET hits == {q \in Cells :
                 /\ g[q[1]][q[2]] # 0
                 /\ segmentIntersectsCircle(sx, sy, ex, ey, CenterX(q[1], q[2]),
                                            CenterY(q[1]), hitRadius)}
  IN  IF hits = {} THEN NoCell
      ELSE CHOOSE q \in hits : \A u \in hits : q[1] < u[1] \/ (q[1] = u[1] /\ q[2] <= u[2])

NoHit(segments) ==
  [segments |-> segments, hit |-> FALSE, point |-> <<>>, cell |-> NoCell, tried |-> <<>>]

\* the body of the bounce loop, from bounce number `bounce` on
RECURSIVE traceLoop(_, _, _, _, _, _, _, _)
traceLoop(g, x, y, vx, vy, bounce, maxBounces, segments) ==
  LET txs == IF vx > 0 THEN {RDiv((CanvasWidth - (x + ShooterRadius)) * AngleUnit, vx)}
             ELSE IF vx < 0 THEN {RDiv((x - ShooterRadius) * AngleUnit, -vx)}
             ELSE {}
      tys == IF vy < 0 THEN {RDiv((y - ShooterRadius) * AngleUnit, -vy)} ELSE {}
      events == txs \cup tys
      tEvent == CHOOSE t \in events : \A u \in events : t <= u
      endX == x + RDiv(vx * tEvent, AngleUnit)
      endY == y + RDiv(vy * tEvent, AngleUnit)
      q == firstHitInScan(g, x, y, endX, endY)
      pt == closestPoint(x, y, endX, endY, CenterX(q[1], q[2]), CenterY(q[1]))
      seg == [x1 |-> x, y1 |-> y, x2 |-> endX, y2 |-> endY]
  IN  IF bounce > maxBounces \/ events = {} THEN NoHit(segments)
      ELSE IF q # NoCell
      THEN [segments |-> Append(segments, [x1 |-> x, y1 |-> y, x2 |-> pt.x, y2 |-> pt.y]),
            hit |-> TRUE, point |-> <<pt.x, pt.y>>, cell |-> q, tried |-> <<seg>>]
      ELSE IF tys # {} /\ (txs = {} \/ \A t \in txs : \A u \in tys : u <= t)
      THEN NoHit(Append(segments, seg))
      ELSE traceLoop(g, endX, endY, -vx, vy, bounce + 1, maxBounces, Append(segments, seg))

computeTrajectory(g, startX, startY, angle, maxBounces) ==
  traceLoop(g, startX, startY, angle[1], angle[2], 0, maxBounces, <<>>)

\* ------------------------------------------------------------ geometry harness
\* posToGrid, gridToPos and computeTrajectory called on their own, the
\* trajectory from the shooter as drawAimPreview calls it.
PreviewBounces == 5
UpLeft == <<-((3 * AngleUnit) \div 5), -((4 * AngleUnit) \div 5)>>
Shallow == <<(24 * AngleUnit) \div 25, -((7 * AngleUnit) \div 25)>>
TrajAngles == {Up, UpRight, UpLeft, Shallow, Down}

TrajGrids ==
  InitialGrids
    \cup {shiftRows(g, 1) : g \in InitialGrids}
    \cup {EmptyGrid}
    \cup {SetCell(EmptyGrid, 0, c, 1) : c \in ColIx}

InitGeom ==
  /\ grid \in TrajGrids
  /\ score = 0
  /\ isRunning = TRUE
  /\ shooter = [main |-> 1, secondary |-> 1, projectile |-> <<>>, moving |-> FALSE,
                animLock |-> FALSE]
  /\ aim = [angle |-> Up, active |-> FALSE]
  /\ anim = [active |-> FALSE, age |-> ShiftDuration, duration |-> ShiftDuration, dir |-> 0]
  /\ timers = {}
  /\ inputs = 0
  /\ last = Did("init")
  /\ probe = NoProbe

\* posToGrid of what gridToPos returns for cell q (out), and of the centre of
\* q's circle (again)
ProbeRoundTrip(q) ==
  /\ probe.fn = "none"
  /\ LET pos == gridToPos(q[1], q[2])
         atPos == posToGrid(pos.x, pos.y)
         atCentre == posToGrid(pos.x + (cellSize \div 2) * SubPx,
                               pos.y + (cellSize \div 2) * SubPx)
     IN  probe' = [fn |-> "roundTrip", seed |-> q, color |-> 0,
                   out |-> <<atPos.row, atPos.col>>,
                   again |-> <<atCentre.row, atCentre.col>>, before |-> grid]
  /\ UNCHANGED <<grid, score, isRunning, shooter, aim, anim, timers, inputs, last>>

\* computeTrajectory(s.x, s.y, angle, 5) on the grid as it stands
ProbeTrajectory(angle) ==
  /\ probe.fn = "none"
  /\ aim' = [angle |-> angle, active |-> TRUE]
  /\ probe' = [fn |-> "trajectory", seed |-> NoCell, color |-> 0,
               out |-> computeTrajectory(grid, ShooterX, ShooterY, angle, PreviewBounces),
               again |-> {}, before |-> grid]
  /\ UNCHANGED <<grid, score, isRunning, shooter, anim, timers, inputs, last>>

NextGeom ==
  \/ \E q \in Cells : ProbeRoundTrip(q)
  \/ \E angle \in TrajAngles : ProbeTrajectory(angle)

SpecGeom == InitGeom /\ [][NextGeom]_vars

\* ------------------------------------------------------------ claims on the geometry
\* the segment is walked in TrajSamples equal steps; FirstTouch is the first step
\* at which the projectile's centre is within the collision radius of cell q
\* (TrajSamples + 1 when it never is)
TrajSamples == 64
SamplePoint(seg, k) ==
  [x |-> seg.x1 + ((seg.x2 - seg.x1) * k) \div TrajSamples,
   y |-> seg.y1 + ((seg.y2 - seg.y1) * k) \div TrajSamples]
FirstTouch(seg, q) ==
  LET ks == {k \in 0..TrajSamples :
               Dist2(SamplePoint(seg, k).x, SamplePoint(seg, k).y,
                     CenterX(q[1], q[2]), CenterY(q[1])) <= hitRadius * hitRadius}
  IN  IF ks = {} THEN TrajSamples + 1 ELSE CHOOSE k \in ks : \A j \in ks : k <= j

\* C17: when computeTrajectory reports a hit, no occupied cell is touched
\* earlier along the candidate segment than the reported cell (one sampling
\* step of tolerance), and the trace ends at the reported point.
C17_EarliestHitWins ==
  (probe.fn = "trajectory" /\ probe.out.hit) =>
    LET seg == probe.out.tried[1]
        mine == FirstTouch(seg, probe.out.cell)
        n == Len(probe.out.segments)
    IN  /\ \A q \in OccupiedCells(grid) : mine <= FirstTouch(seg, q) + 1
        /\ <<probe.out.segments[n].x2, probe.out.segments[n].y2>> = probe.out.point

\* C17 failing run: a shot straight up at the four filled rows is reported to
\* hit a cell of row 0, though a cell of row 3 is touched many steps earlier.
C17_Witness ==
  /\ probe.fn = "trajectory"
  /\ probe.out.hit
  /\ probe.out.cell[1] = 0
  /\ \E q \in OccupiedCells(grid) :
       /\ q[1] = 3
       /\ FirstTouch(probe.out.tried[1], q) + 5 < FirstTouch(probe.out.tried[1], probe.out.cell)

\* C18 as stated: posToGrid of what gridToPos returns for a cell is that cell.
C18_RoundTrip ==
  probe.fn = "roundTrip" => probe.out = probe.seed

\* C18 amended: posToGrid of the centre of a cell's circle, gridToPos plus half
\* a cell size on each axis, is that cell, for every cell of the grid.
C18_RoundTripFromCentre ==
  probe.fn = "roundTrip" => probe.again = probe.seed

\* C18 witness: the last cell of an odd row comes back from its centre and not
\* from the position gridToPos gives.
C18_Witness ==
  /\ probe.fn = "roundTrip"
  /\ probe.seed = <<rows - 1, cols - 1>>
  /\ probe.again = probe.seed
  /\ probe.out # probe.seed

\* ------------------------------------------------------------ claims on the lock and the flight
\* C22: the lock that blocks firing equals the flag that blocks the physics tick
\* and drives the offset, in every reachable state; a step changes one exactly
\* when it changes the other, and only a shift request or an unlock does.
C22_LockIsActive ==
  /\ [](shooter.animLock = anim.active)
  /\ [][(shooter'.animLock # shooter.animLock \/ anim'.active # anim.active) =>
          /\ last'.op \in {"shift", "unlock"}
          /\ shooter'.animLock = anim'.active]_vars

\* C22 witness: a fire attempt has just been made while both flags are set and
\* the commit has already run.
C22_Witness ==
  /\ last.op = "tap"
  /\ shooter.animLock
  /\ anim.active
  /\ \E t \in timers : t.kind = "unlock"

\* b is one of the six cells floodFill and removeFloating push for a
OffsetAdjacent(a, b) == \E i \in 1..6 : Pushed(a[1], a[2])[i] = b

\* cell a moved by d rows
MovedBy(a, d) == <<a[1] + d, a[2]>>

\* C23: at a commit, any two occupied cells whose rows both stay in the grid are
\* neighbours under the offsets after the move exactly when they were before it.
C23_ShiftKeepsAdjacency ==
  [][last'.op = "commit" =>
       \E t \in CommitTimers(timers) :
         /\ t.left = 0
         /\ \A a \in OccupiedCells(grid) : \A b \in OccupiedCells(grid) :
              (MovedBy(a, t.dir) \in Cells /\ MovedBy(b, t.dir) \in Cells) =>
                /\ grid'[a[1] + t.dir][a[2]] = grid[a[1]][a[2]]
                /\ grid'[b[1] + t.dir][b[2]] = grid[b[1]][b[2]]
                /\ OffsetAdjacent(MovedBy(a, t.dir), MovedBy(b, t.dir))
                     <=> OffsetAdjacent(a, b)]_vars

\* C23 failing run: a commit has just moved two occupied cells that were
\* neighbours one row apart to places that are not, and two that were not to
\* places that are.
C23_Witness ==
  /\ last.op = "commit"
  /\ \E t \in timers :
       /\ t.kind = "unlock"
       /\ \E a \in OccupiedCells(grid) : \E b \in OccupiedCells(grid) :
            /\ MovedBy(a, -t.dir) \in Cells
            /\ MovedBy(b, -t.dir) \in Cells
            /\ OffsetAdjacent(MovedBy(a, -t.dir), MovedBy(b, -t.dir))
            /\ ~OffsetAdjacent(a, b)
       /\ \E a \in OccupiedCells(grid) : \E b \in OccupiedCells(grid) :
            /\ MovedBy(a, -t.dir) \in Cells
            /\ MovedBy(b, -t.dir) \in Cells
            /\ ~OffsetAdjacent(MovedBy(a, -t.dir), MovedBy(b, -t.dir))
            /\ OffsetAdjacent(a, b)

\* ------------------------------------------------------------ flight of a near-horizontal shot
\* The same machine with the pointer also at an angle just above the horizontal
\* (sin = -0.01, above minVy), and with FlightInputs user inputs in a run: such
\* a shot is in the air for about a thousand frames.
FlightInputs == 1
Flat == <<AngleUnit, -(AngleUnit \div 100)>>
FlightAngles == {Up, Flat, Down}

InitFlight ==
  /\ grid \in InitialGrids
  /\ score = 0
  /\ isRunning = TRUE
  /\ \E m \in Colors, s \in Colors :
       shooter = [main |-> m, secondary |-> s, projectile |-> <<>>, moving |-> FALSE,
                  animLock |-> FALSE]
  /\ aim = [angle |-> Up, active |-> FALSE]
  /\ anim = [active |-> FALSE, age |-> ShiftDuration, duration |-> ShiftDuration, dir |-> 0]
  /\ timers = {}
  /\ inputs = FlightInputs
  /\ last = Did("init")
  /\ probe = NoProbe

NextFlight ==
  \/ \E a \in FlightAngles : PointerMove(a)
  \/ \E a \in FlightAngles : Tap(a)
  \/ Swap
  \/ \E d \in {-1, 1} : ShiftClick(d)
  \/ Restart
  \/ TogglePause
  \/ Frame
  \/ FramePaused
  \/ Advance
  \/ TimerCommit
  \/ TimerUnlock

\* loop reaches updatePhysics with a projectile to move: the game runs, no
\* shift animation is in progress and shooterRef holds a projectile
FrameDue == isRunning /\ ~anim.active /\ shooter.projectile # <<>>

\* requestAnimationFrame keeps calling loop, time passes, due timers run.
\* The conjunct on Frame is weak fairness of the frame callback with its
\* enabling condition written out as FrameDue: a frame that stays due is run.
SpecFlight ==
  /\ InitFlight
  /\ [][NextFlight]_vars
  /\ ([]<>(~FrameDue) \/ []<><<Frame>>_vars)
  /\ WF_vars(Advance)
  /\ WF_vars(TimerCommit)
  /\ WF_vars(TimerUnlock)

\* C21: a projectile always has vy < 0; a step that keeps it in the air keeps
\* its vy, and a physics tick that moves it moves it up; and in every run in
\* which the game ends up unpaused, a moving projectile eventually lands.
C21_ShotLands ==
  /\ [](shooter.projectile # <<>> => shooter.projectile[1].vy < 0)
  /\ [][(shooter.projectile # <<>> /\ shooter'.projectile # <<>>) =>
          /\ shooter'.projectile[1].vy = shooter.projectile[1].vy
          /\ shooter'.projectile # shooter.projectile =>
               shooter'.projectile[1].y < shooter.projectile[1].y]_vars
  /\ [][(shooter.projectile = <<>> /\ shooter'.projectile # <<>>) =>
          /\ last'.op = "tap"
          /\ last'.arg[2] < 0
          /\ shooter'.projectile[1].vy <= RDiv(fireSpeed * SubPx * minVy, AngleUnit)]_vars
  /\ (<>[]isRunning) => (shooter.moving ~> NoProjectile(shooter))

\* C21 witness: a shot fired just above the horizontal, its angle clamped to
\* minVy, has bounced its way up and has just landed.
C21_Witness ==
  /\ last.op = "land"
  /\ aim.angle = Flat
  /\ NoProjectile(shooter)
  /\ grid[last.cell[1]][last.cell[2]] # 0

====
